---- MODULE Spec2Model ----
(***************************************************************************)
(* Model of animate.py: a batch run that picks the latest reference image  *)
(* of one Drive folder, lists the unprocessed videos of another, calls the *)
(* Wan2.2-Animate Space for each video with retries, uploads the output    *)
(* and renames the source with the __PROCESSED tag.                        *)
(*                                                                         *)
(* File names are sequences of one-character strings, timestamps are       *)
(* fixed-width sequences of digit characters (the fixed-format RFC 3339    *)
(* strings Drive returns), an absent field is the empty sequence.          *)
(***************************************************************************)
EXTENDS Integers, Sequences, FiniteSets, TLC

\* ------------------------------------------------------------------------
\* Bounds of the model
\* ------------------------------------------------------------------------
MaxVideos == 2      \* videos in the video folder
MaxRuns == 2        \* runs of main() in one behaviour
MaxPicFiles == 2    \* files handed to pick_latest_image
MaxSeqLen == 2      \* elements of a sequence-shaped generation result
MaxListFiles == 3   \* files of the folder list_files_in_folder is asked for

\* ------------------------------------------------------------------------
\* Program constants
\* ------------------------------------------------------------------------
PROCESSED_TAG == <<"_", "_", "P", "R", "O", "C", "E", "S", "S", "E", "D">>
MAX_VIDEO_MB == 200
BytesPerMB == 1048576
DefaultRetries == 5
BackoffCap == 60
BackoffStep == 5
SignatureArity == 4
DefaultApiName == "/predict"

\* ------------------------------------------------------------------------
\* Strings
\* ------------------------------------------------------------------------
Range(s) == {s[i] : i \in DOMAIN s}

Max(S) == CHOOSE x \in S : \A y \in S : y <= x

Min2(a, b) == IF a <= b THEN a ELSE b

\* `sub in s` of Python for sequences of characters
Contains(sub, s) ==
    \E i \in 0..(Len(s) - Len(sub)) : SubSeq(s, i + 1, i + Len(sub)) = sub

\* s.rfind(c), 1-based, 0 when c does not occur
RFind(s, c) == Max({0} \cup {i \in DOMAIN s : s[i] = c})

Digits == <<"0", "1", "2", "3", "4", "5", "6", "7", "8", "9">>

\* the code point order of the digit characters
Ord(c) == CHOOSE n \in 1..10 : Digits[n] = c

\* Python's < on str: lexicographic, a proper prefix is smaller
RECURSIVE StrLess(_, _)
StrLess(a, b) ==
    IF a = <<>> THEN b # <<>>
    ELSE IF b = <<>> THEN FALSE
    ELSE IF a[1] = b[1] THEN StrLess(Tail(a), Tail(b))
    ELSE Ord(a[1]) < Ord(b[1])

\* the instant a timestamp string denotes
RECURSIVE TimeVal(_)
TimeVal(t) ==
    IF t = <<>> THEN 0
    ELSE 10 * TimeVal(SubSeq(t, 1, Len(t) - 1)) + (Ord(t[Len(t)]) - 1)

\* ------------------------------------------------------------------------
\* Remote files: [id, name, mimeType, createdTime, modifiedTime, size]
\* mimeType is a sequence of tokens (<<"image/", "png">>), size is the
\* declared size in bytes with 0 for an absent size
\* ------------------------------------------------------------------------

\* Drive's answer to the query of list_files_in_folder: the folder's files
\* whose mimeType contains the prefix (every file when no prefix is given)
MatchQuery(folder, mime_prefix) ==
    SelectSeq(folder, LAMBDA f : mime_prefix = "" \/ mime_prefix \in Range(f.mimeType))

\* one response of files().list: page number token (0 stands for no token)
ListResponse(pages, page_token) ==
    LET i == IF page_token = 0 THEN 1 ELSE page_token
    IN  IF i > Len(pages) THEN [files |-> <<>>, nextPageToken |-> 0]
        ELSE [files |-> pages[i],
              nextPageToken |-> IF i < Len(pages) THEN i + 1 ELSE 0]

\* files = resp.get("files", []) in place of files.extend: the last page only
RECURSIVE ListLoopLastPage(_, _, _)
ListLoopLastPage(pages, page_token, files) ==
    LET resp == ListResponse(pages, page_token)
    IN  IF resp.nextPageToken = 0 THEN resp.files
        ELSE ListLoopLastPage(pages, resp.nextPageToken, resp.files)

\* lines 53-65: the while loop, one request per turn
RECURSIVE ListLoop(_, _, _)
ListLoop(pages, page_token, files) ==
    LET resp == ListResponse(pages, page_token)
        got == files \o resp.files
    IN  IF resp.nextPageToken = 0 THEN got
        ELSE ListLoop(pages, resp.nextPageToken, got)

list_files_in_folder(pages) == ListLoop(pages, 0, <<>>)

\* every way Drive may cut a result into consecutive non-empty pages
RECURSIVE Paginations(_)
Paginations(files) ==
    IF files = <<>> THEN {<<>>}
    ELSE UNION {{<<SubSeq(files, 1, n)>> \o rest :
                    rest \in Paginations(SubSeq(files, n + 1, Len(files)))} :
                n \in 1..Len(files)}

\* parse_dt of pick_latest_image: modifiedTime if present, else createdTime
parse_dt(f) ==
    TimeVal(IF f.modifiedTime # <<>> THEN f.modifiedTime ELSE f.createdTime)

\* hidden files taken as candidates too
IsImageCandidateHidden(f) == Len(f.mimeType) > 0 /\ f.mimeType[1] = "image/"

IsImageCandidate(f) ==
    /\ Len(f.mimeType) > 0 /\ f.mimeType[1] = "image/"
    /\ ~(Len(f.name) > 0 /\ f.name[1] = ".")

\* the sort without reverse=True
InsertDescAsc(sorted, f) ==
    LET n == Cardinality({i \in DOMAIN sorted : parse_dt(sorted[i]) <= parse_dt(f)})
    IN  SubSeq(sorted, 1, n) \o <<f>> \o SubSeq(sorted, n + 1, Len(sorted))

\* list.sort(key=parse_dt, reverse=True): stable, equal keys keep their order
InsertDesc(sorted, f) ==
    LET n == Cardinality({i \in DOMAIN sorted : parse_dt(sorted[i]) >= parse_dt(f)})
    IN  SubSeq(sorted, 1, n) \o <<f>> \o SubSeq(sorted, n + 1, Len(sorted))

RECURSIVE SortDesc(_)
SortDesc(files) ==
    IF files = <<>> THEN <<>>
    ELSE InsertDesc(SortDesc(SubSeq(files, 1, Len(files) - 1)), files[Len(files)])

NoFile == [id |-> "none", name |-> <<>>, mimeType |-> <<>>,
           createdTime |-> <<>>, modifiedTime |-> <<>>, size |-> 0]

pick_latest_image(files) ==
    LET image_candidates == SelectSeq(files, IsImageCandidate)
    IN  IF image_candidates = <<>> THEN NoFile
        ELSE SortDesc(image_candidates)[1]

is_processed(name) == Contains(PROCESSED_TAG, name)

\* the key without the preference for modifiedTime
SortKeyCreated(f) == f.createdTime

\* key of todo.sort: modifiedTime or createdTime or "", compared as strings
SortKey(f) == IF f.modifiedTime # <<>> THEN f.modifiedTime ELSE f.createdTime

InsertAsc(sorted, f) ==
    LET n == Cardinality({i \in DOMAIN sorted : ~StrLess(SortKey(f), SortKey(sorted[i]))})
    IN  SubSeq(sorted, 1, n) \o <<f>> \o SubSeq(sorted, n + 1, Len(sorted))

RECURSIVE SortAsc(_)
SortAsc(files) ==
    IF files = <<>> THEN <<>>
    ELSE InsertAsc(SortAsc(SubSeq(files, 1, Len(files) - 1)), files[Len(files)])

\* main, lines 215-216: the work queue of a run
BuildTodo(ref_files) ==
    SortAsc(SelectSeq(ref_files, LAMBDA f : ~is_processed(f.name)))

\* os.path.splitext(name)[0]: cut at the last dot unless only dots precede it
\* in the last path component
SplitBase(name) ==
    LET sepIndex == RFind(name, "/")
        dotIndex == RFind(name, ".")
    IN  IF /\ dotIndex > sepIndex
           /\ \E j \in (sepIndex + 1)..(dotIndex - 1) : name[j] # "."
        THEN SubSeq(name, 1, dotIndex - 1)
        ELSE name

MP4 == <<".", "m", "p", "4">>
MIX_PRO == <<"_", "_", "M", "I", "X", "_", "_", "P", "R", "O">>

\* main, lines 252-253
OutName(name) == SplitBase(name) \o MIX_PRO \o MP4

\* the rename keeps the name unchanged apart from the extension
NewInNameNoTag(name) == SplitBase(name) \o MP4

\* main, lines 252 and 258
NewInName(name) == SplitBase(name) \o PROCESSED_TAG \o MP4

\* the size in MB compared with the ceiling in bytes
TooLargeUnits(size) == size # 0 /\ (size \div BytesPerMB) > MAX_VIDEO_MB * BytesPerMB

\* main, lines 237-240: the size gate
TooLarge(size) == size # 0 /\ size > MAX_VIDEO_MB * BytesPerMB

SafeChars ==
    {"a", "b", "c", "d", "e", "f", "g", "h", "i", "j", "k", "l", "m", "n", "o",
     "p", "q", "r", "s", "t", "u", "v", "w", "x", "y", "z",
     "A", "B", "C", "D", "E", "F", "G", "H", "I", "J", "K", "L", "M", "N", "O",
     "P", "Q", "R", "S", "T", "U", "V", "W", "X", "Y", "Z",
     "0", "1", "2", "3", "4", "5", "6", "7", "8", "9", ".", "_", "-"}

\* re.sub(r"[^a-zA-Z0-9._-]+", "_", name): each run of other characters -> "_"
RECURSIVE SubUnsafe(_, _)
SubUnsafe(name, inRun) ==
    IF name = <<>> THEN <<>>
    ELSE IF name[1] \in SafeChars THEN <<name[1]>> \o SubUnsafe(Tail(name), FALSE)
    ELSE IF inRun THEN SubUnsafe(Tail(name), TRUE)
    ELSE <<"_">> \o SubUnsafe(Tail(name), TRUE)

RECURSIVE Strip(_)
Strip(s) ==
    IF s = <<>> THEN s
    ELSE IF s[1] = "_" THEN Strip(Tail(s))
    ELSE IF s[Len(s)] = "_" THEN Strip(SubSeq(s, 1, Len(s) - 1))
    ELSE s

safe_filename(name) == Strip(SubUnsafe(name, FALSE))

\* ------------------------------------------------------------------------
\* Generation results: [shape, s, items, m]
\*   shape "str": the string s; "seq": the list/tuple items; "map": the dict
\*   m; "other": any other object.  An element is [kind, s] with kind "str"
\*   (the string s), "other" (not a string) or "absent" (key not in the dict)
\* ------------------------------------------------------------------------
NoPath == "none"
\* the dict keys tried in another order
KeyOrderPathFirst == <<"path", "video", "output", "file">>

\* call_wan2_2, line 182: the dict keys in the order they are tried
KeyOrder == <<"video", "path", "output", "file">>
AllKeys == Range(KeyOrder) \cup {"url"}
Absent == [kind |-> "absent", s |-> ""]
EmptyMap == [k \in AllKeys |-> Absent]

StrResult(p) == [shape |-> "str", s |-> p, items |-> <<>>, m |-> EmptyMap]
SeqResult(items) == [shape |-> "seq", s |-> "", items |-> items, m |-> EmptyMap]
MapResult(m) == [shape |-> "map", s |-> "", items |-> <<>>, m |-> m]
OtherResult == [shape |-> "other", s |-> "", items |-> <<>>, m |-> EmptyMap]

\* isinstance(v, str) and os.path.exists(v)
IsLocalFile(e, exists) == e.kind = "str" /\ e.s \in exists

\* call_wan2_2, lines 172-188: the path returned, NoPath where line 188 raises
NormalizeResult(result, exists) ==
    IF result.shape = "str" /\ result.s \in exists THEN result.s
    ELSE IF /\ result.shape = "seq"
            /\ \E i \in DOMAIN result.items : IsLocalFile(result.items[i], exists)
    THEN LET i == CHOOSE i \in DOMAIN result.items :
                    /\ IsLocalFile(result.items[i], exists)
                    /\ \A j \in 1..(i - 1) : ~IsLocalFile(result.items[j], exists)
         IN  result.items[i].s
    ELSE IF /\ result.shape = "map"
            /\ \E i \in DOMAIN KeyOrder : IsLocalFile(result.m[KeyOrder[i]], exists)
    THEN LET i == CHOOSE i \in DOMAIN KeyOrder :
                    /\ IsLocalFile(result.m[KeyOrder[i]], exists)
                    /\ \A j \in 1..(i - 1) : ~IsLocalFile(result.m[KeyOrder[j]], exists)
         IN  result.m[KeyOrder[i]].s
    ELSE NoPath

\* a constant delay instead of one that grows with the attempt
BackoffFlat(attempt) == Min2(BackoffCap, BackoffStep)

\* call_wan2_2, line 192
Backoff(attempt) == Min2(BackoffCap, BackoffStep * attempt)

\* ------------------------------------------------------------------------
\* Endpoint descriptor: [ok, endpoints] with endpoints the named_endpoints in
\* dict order, each [name, nparams]; ok = FALSE when view_api raises
\* ------------------------------------------------------------------------
\* lines 142-147: the loop stops at the first endpoint with four parameters;
\* "" stands for None
BestEndpoint(endpoints) ==
    IF \E i \in DOMAIN endpoints : endpoints[i].nparams = SignatureArity
    THEN LET i == CHOOSE i \in DOMAIN endpoints :
                    /\ endpoints[i].nparams = SignatureArity
                    /\ \A j \in 1..(i - 1) : endpoints[j].nparams # SignatureArity
         IN  endpoints[i].name
    ELSE ""

\* the loop without its break: the last endpoint with four parameters wins
find_last_api_name(api) ==
    IF ~api.ok \/ api.endpoints = <<>> THEN DefaultApiName
    ELSE IF \E i \in DOMAIN api.endpoints : api.endpoints[i].nparams = SignatureArity
    THEN api.endpoints[Max({i \in DOMAIN api.endpoints :
                                api.endpoints[i].nparams = SignatureArity})].name
    ELSE api.endpoints[1].name

find_best_api_name(api) ==
    IF ~api.ok THEN DefaultApiName
    ELSE IF api.endpoints = <<>> THEN DefaultApiName
    ELSE LET best == BestEndpoint(api.endpoints)
         IN  IF best = "" THEN api.endpoints[1].name ELSE best

\* ------------------------------------------------------------------------
\* State
\* ------------------------------------------------------------------------
VARIABLES
    picFolder,      \* Drive: files of PIC_FOLDER_ID, in listing order
    refFolder,      \* Drive: files of REF_FOLDER_ID, in listing order
    outFolder,      \* Drive: files created in OUT_FOLDER_ID, [name, src]
    pc,             \* position of the current run of main()
    err,            \* the exception that ended the run, [kind, cause]
    runs,           \* runs started so far
    latest_img,     \* main: latest_img
    todo,           \* main: todo
    idx,            \* main: position of the for loop in todo
    api_name,       \* main: api_name
    tmp,            \* the TemporaryDirectory of the run
    fs,             \* files of the temporary directory, path -> remote id
    img_path,       \* main: img_path
    video_path,     \* main: video_path
    attempt,        \* call_wan2_2: attempt
    last_err,       \* call_wan2_2: last_err
    sleeps,         \* call_wan2_2: the time.sleep durations so far
    calls,          \* call_wan2_2: client.predict calls so far
    out_local,      \* main: out_local
    observed,       \* history: what the latest client.predict call did
    log,            \* history: <<operation, file id>> done in the current run
    visited,        \* history: ids the for loop of the current run has taken
    everMarked,     \* history: ids that ever carried PROCESSED_TAG
    atStart,        \* history: Drive when the run began, [marked, outputs]
    hist,           \* history of the current run: [env, desc, resolves, used,
                    \*   mkdirs, tries], see NoHist
    pickIn, pickOut,    \* pick_latest_image alone: argument and result
    normIn, normOut,    \* result normalization alone: argument and result
    listIn, listOut     \* list_files_in_folder alone: the pages and the result

runVars == <<pc, err, runs, latest_img, todo, idx, api_name, tmp, fs, img_path,
             video_path, attempt, last_err, sleeps, calls, out_local>>
driveVars == <<picFolder, refFolder, outFolder>>
histVars == <<observed, log, visited, everMarked, atStart, hist>>
pureVars == <<pickIn, pickOut, normIn, normOut, listIn, listOut>>
vars == <<driveVars, runVars, histVars, pureVars>>

\* ------------------------------------------------------------------------
\* The files the model draws folders from
\* ------------------------------------------------------------------------
VIDEO == <<"video/", "mp4">>
IMAGE == <<"image/", "png">>

File(id, name, mime, ctime, mtime, size) ==
    [id |-> id, name |-> name, mimeType |-> mime,
     createdTime |-> ctime, modifiedTime |-> mtime, size |-> size]

VideoPool ==
    {File("va", <<"a", ".", "m", "p", "4">>, VIDEO, <<"1", "0">>, <<"2", "0">>, 209715200),
     File("vb", <<"b", ".", "m", "o", "v">>, VIDEO, <<"1", "5">>, <<>>, 0),
     File("vc", <<"c", ".", "m", "p", "4">>, VIDEO, <<"3", "0">>, <<"0", "9">>, 209715201),
     File("vd", <<"d">> \o PROCESSED_TAG \o <<"x", ".", "m", "p", "4">>, VIDEO,
          <<"0", "5">>, <<"0", "5">>, 1048576)}

\* the name a video had before the first run
OrigName(id) == (CHOOSE f \in VideoPool : f.id = id).name

\* sequences without repetition of at most n files of pool
RECURSIVE Listings(_, _)
Listings(pool, n) ==
    IF n = 0 THEN {<<>>}
    ELSE {<<>>} \cup UNION {{<<f>> \o rest : rest \in Listings(pool \ {f}, n - 1)} :
                              f \in pool}

PicListings ==
    {<<>>,
     <<File("i1", <<"o", "l", "d", ".", "p", "n", "g">>, IMAGE, <<"0", "1">>, <<"0", "2">>, 10),
       File("i2", <<"n", "e", "w", ".", "p", "n", "g">>, IMAGE, <<"0", "7">>, <<>>, 10)>>,
     <<File("i3", <<".", "h", "i", "d">>, IMAGE, <<"0", "9">>, <<"0", "9">>, 10)>>}

\* the output folder id not asked for at the start
RequiredEnvNoOut == <<"PIC_FOLDER_ID", "REF_FOLDER_ID", "GDRIVE_SA_JSON">>

\* the environment variables main() and build_drive() require
RequiredEnv == <<"PIC_FOLDER_ID", "REF_FOLDER_ID", "OUT_FOLDER_ID", "GDRIVE_SA_JSON">>

\* what client.predict may do: raise, or return a result
CallErrors == {"transport", "timeout"}
ShapeError == "unexpected output"
LocalOutputs == {"p1", "p2"}
PredictResults ==
    {StrResult("p1"), StrResult("url"), OtherResult, MapResult(EmptyMap),
     SeqResult(<<[kind |-> "other", s |-> ""], [kind |-> "str", s |-> "p2"]>>),
     MapResult([EmptyMap EXCEPT !["path"] = [kind |-> "str", s |-> "p1"]])}

Descriptors ==
    {[ok |-> FALSE, endpoints |-> <<>>],
     [ok |-> TRUE, endpoints |-> <<>>],
     [ok |-> TRUE, endpoints |-> <<[name |-> "/info", nparams |-> 1],
                                   [name |-> "/gen", nparams |-> 4]>>],
     [ok |-> TRUE, endpoints |-> <<[name |-> "/info", nparams |-> 1]>>],
     [ok |-> TRUE, endpoints |-> <<[name |-> "/mix", nparams |-> 4],
                                   [name |-> "/gen", nparams |-> 4]>>],
     [ok |-> TRUE, endpoints |-> <<[name |-> "/up", nparams |-> 3],
                                   [name |-> "/info", nparams |-> 5]>>]}

NoErr == [kind |-> "none", cause |-> ""]

\* the history of a run that has done nothing yet:
\*   env       the environment variables that are set
\*   desc      the descriptor view_api answered with
\*   resolves  calls of find_best_api_name
\*   used      the api_name values passed to client.predict
\*   mkdirs    temporary directories created
\*   tries     <<operation, target>> -> requests sent for it (for a listing,
\*             requests sent for any one page)
NoDesc == [ok |-> FALSE, endpoints |-> <<>>]
NoHist == [env |-> {}, desc |-> NoDesc, resolves |-> 0, used |-> {}, mkdirs |-> 0,
           tries |-> <<>>]

\* n more requests for k
Tried(t, k, n) ==
    [q \in (DOMAIN t) \cup {k} |->
        (IF q \in DOMAIN t THEN t[q] ELSE 0) + (IF q = k THEN n ELSE 0)]
EmptyFs == <<>>
Put(f, p, c) == [q \in (DOMAIN f) \cup {p} |-> IF q = p THEN c ELSE f[q]]

Marked == {refFolder[i].id : i \in {j \in DOMAIN refFolder : is_processed(refFolder[j].name)}}

Terminal == {"done", "failed", "crashed"}

InitPure ==
    /\ pickIn = <<>> /\ pickOut = NoFile
    /\ normIn = [result |-> OtherResult, exists |-> {}] /\ normOut = NoPath
    /\ listIn = <<>> /\ listOut = <<>>

InitRun(at) ==
    /\ pc = at /\ err = NoErr /\ runs = 0
    /\ latest_img = NoFile /\ todo = <<>> /\ idx = 0 /\ api_name = ""
    /\ tmp = "none" /\ fs = EmptyFs /\ img_path = <<>> /\ video_path = <<>>
    /\ attempt = 0 /\ last_err = "" /\ sleeps = <<>> /\ calls = 0
    /\ out_local = NoPath
    /\ observed = "" /\ log = {} /\ visited = <<>>
    /\ hist = NoHist

Init ==
    /\ picFolder \in PicListings
    /\ refFolder \in Listings(VideoPool, MaxVideos)
    /\ outFolder = <<>>
    /\ InitRun("idle")
    /\ everMarked = Marked
    /\ atStart = [marked |-> {}, outputs |-> 0]
    /\ InitPure

\* ------------------------------------------------------------------------
\* One run of main()
\* ------------------------------------------------------------------------
callVars == <<attempt, last_err, sleeps, calls, out_local, observed>>

\* an exception leaves main(): the with block of line 230 removes its directory
\* the directory outlives the with block
ExitWithLeaking(t) == t

\* main, line 230: leaving the with block, normally or by an exception, removes
\* the directory it created
ExitWith(t) == IF t = "exists" THEN "removed" ELSE t

\* a failed request repeated once
StoreTriesAgain(ok) == IF ok THEN 1 ELSE 2

\* lines 45-123: every Drive request is one .execute() or one download loop,
\* outside any try or loop that would repeat it
StoreTries(ok) == 1

Requested(op, id, ok) == [hist EXCEPT !.tries = Tried(@, <<op, id>>, StoreTries(ok))]

Fail(kind, cause) ==
    /\ pc' = "failed"
    /\ err' = [kind |-> kind, cause |-> cause]
    /\ tmp' = ExitWith(tmp)
    /\ fs' = EmptyFs

\* the for loop of line 235 moves on; after the last item the with block ends
NextItem ==
    /\ idx' = idx + 1
    /\ IF idx < Len(todo)
       THEN pc' = "item" /\ tmp' = tmp /\ fs' = fs
       ELSE pc' = "done" /\ tmp' = ExitWith(tmp) /\ fs' = EmptyFs

\* the failure is logged and the loop moves on to the next item
OnItemFailureIsolated(kind, cause) == NextItem /\ err' = err

\* main, lines 235-260: nothing in the loop catches an exception of an item
OnItemFailure(kind, cause) == Fail(kind, cause) /\ idx' = idx

\* the rename placed before the upload
StepAfterSwapped(step) ==
    CASE step = "hf_call" -> "rename"
      [] step = "rename" -> "upload"
      [] step = "upload" -> "next"

\* the order of the statements of lines 248-260 for one item
StepAfter(step) ==
    CASE step = "hf_call" -> "upload"
      [] step = "upload" -> "rename"
      [] step = "rename" -> "next"

Goto(step) ==
    IF step = "next" THEN NextItem
    ELSE pc' = step /\ idx' = idx /\ tmp' = tmp /\ fs' = fs

FirstMissing(env) ==
    RequiredEnv[CHOOSE i \in DOMAIN RequiredEnv :
                    /\ RequiredEnv[i] \notin env
                    /\ \A j \in 1..(i - 1) : RequiredEnv[j] \in env]

\* main, lines 200-205, at the start of a run
Configure ==
    /\ pc \in {"idle"} \cup Terminal
    /\ runs < MaxRuns
    /\ runs' = runs + 1
    /\ latest_img' = NoFile /\ todo' = <<>> /\ idx' = 0 /\ api_name' = ""
    /\ tmp' = "none" /\ fs' = EmptyFs /\ img_path' = <<>> /\ video_path' = <<>>
    /\ attempt' = 0 /\ last_err' = "" /\ sleeps' = <<>> /\ calls' = 0
    /\ out_local' = NoPath /\ observed' = ""
    /\ log' = {} /\ visited' = <<>>
    /\ atStart' = [marked |-> Marked, outputs |-> Len(outFolder)]
    /\ \E env \in SUBSET Range(RequiredEnv) :
         /\ hist' = [NoHist EXCEPT !.env = env]
         /\ IF env = Range(RequiredEnv)
            THEN pc' = "discover_ref" /\ err' = NoErr
            ELSE /\ pc' = "failed"
                 /\ err' = [kind |-> "ConfigurationError", cause |-> FirstMissing(env)]
    /\ UNCHANGED <<driveVars, everMarked, pureVars>>

\* main, lines 207-211
DiscoverRef ==
    /\ pc = "discover_ref"
    /\ \E ok \in BOOLEAN, pages \in Paginations(MatchQuery(picFolder, "image/")) :
         /\ hist' = Requested("list", "pic", ok)
         /\ IF ~ok THEN Fail("StoreError", "list") /\ latest_img' = latest_img
            ELSE LET img == pick_latest_image(list_files_in_folder(pages))
                 IN  IF img = NoFile
                     THEN Fail("DiscoveryError", "") /\ latest_img' = latest_img
                     ELSE /\ latest_img' = img
                          /\ pc' = "discover_queue"
                          /\ UNCHANGED <<err, tmp, fs>>
    /\ UNCHANGED <<driveVars, runs, todo, idx, api_name, img_path, video_path,
                   callVars, log, visited, everMarked, atStart, pureVars>>

\* the run goes on whatever the queue holds
AfterQueueAlways(queue) == "connect"

\* main, lines 218-220: an empty queue ends the run, successfully
AfterQueue(queue) == IF queue = <<>> THEN "done" ELSE "connect"

\* main, lines 213-220
DiscoverQueue ==
    /\ pc = "discover_queue"
    /\ \E ok \in BOOLEAN, pages \in Paginations(MatchQuery(refFolder, "video/")) :
         /\ hist' = Requested("list", "ref", ok)
         /\ IF ~ok THEN Fail("StoreError", "list") /\ todo' = todo
            ELSE /\ todo' = BuildTodo(list_files_in_folder(pages))
                 /\ pc' = AfterQueue(todo')
                 /\ UNCHANGED <<err, tmp, fs>>
    /\ UNCHANGED <<driveVars, runs, latest_img, idx, api_name, img_path, video_path,
                   callVars, log, visited, everMarked, atStart, pureVars>>

\* main, lines 222-228
Connect ==
    /\ pc = "connect"
    /\ \E ok \in BOOLEAN, api \in Descriptors :
         IF ~ok THEN Fail("ClientError", "") /\ api_name' = api_name /\ hist' = hist
         ELSE /\ api_name' = find_best_api_name(api)
              /\ hist' = [hist EXCEPT !.desc = api, !.resolves = @ + 1]
              /\ pc' = "prepare"
              /\ UNCHANGED <<err, tmp, fs>>
    /\ UNCHANGED <<driveVars, runs, latest_img, todo, idx, img_path, video_path,
                   callVars, log, visited, everMarked, atStart, pureVars>>

\* io.FileIO(out_path, "wb") needs a file name below the directory
Writable(path) == path \notin {<<>>, <<".">>, <<".", ".">>}

\* main, lines 230-233: the directory is created, the image downloaded into it
Prepare ==
    /\ pc = "prepare"
    /\ img_path' = safe_filename(latest_img.name)
    /\ log' = log \cup {<<"download", latest_img.id>>}
    /\ \E ok \in BOOLEAN :
         /\ hist' = [Requested("download", latest_img.id, ok) EXCEPT !.mkdirs = @ + 1]
         /\ IF ok /\ Writable(img_path')
            THEN /\ tmp' = "exists"
                 /\ fs' = Put(EmptyFs, img_path', latest_img.id)
                 /\ pc' = "item" /\ idx' = 1
                 /\ err' = err
            ELSE /\ tmp' = ExitWith("exists") /\ fs' = EmptyFs
                 /\ pc' = "failed" /\ idx' = idx
                 /\ err' = [kind |-> "StoreError", cause |-> "download"]
    /\ UNCHANGED <<driveVars, runs, latest_img, todo, api_name, video_path,
                   callVars, visited, everMarked, atStart, pureVars>>

\* main, lines 235-242: the size gate skips the item
SkipItem ==
    /\ pc = "item" /\ idx \in DOMAIN todo
    /\ TooLarge(todo[idx].size)
    /\ visited' = Append(visited, todo[idx].id)
    /\ NextItem
    /\ UNCHANGED <<driveVars, err, runs, latest_img, todo, api_name, img_path,
                   video_path, callVars, log, everMarked, atStart, hist, pureVars>>

\* main, lines 235-249: the item is downloaded and call_wan2_2 entered
DownloadItem ==
    /\ pc = "item" /\ idx \in DOMAIN todo
    /\ ~TooLarge(todo[idx].size)
    /\ visited' = Append(visited, todo[idx].id)
    /\ video_path' = safe_filename(todo[idx].name)
    /\ log' = log \cup {<<"download", todo[idx].id>>}
    /\ \E ok \in BOOLEAN :
         /\ hist' = Requested("download", todo[idx].id, ok)
         /\ IF ok /\ Writable(video_path')
            THEN /\ fs' = Put(fs, video_path', todo[idx].id)
                 /\ pc' = "hf_call"
                 /\ attempt' = 1 /\ last_err' = "" /\ sleeps' = <<>> /\ calls' = 0
                 /\ out_local' = NoPath /\ observed' = ""
                 /\ UNCHANGED <<err, tmp>>
            ELSE /\ Fail("StoreError", "download")
                 /\ UNCHANGED callVars
    /\ UNCHANGED <<driveVars, runs, latest_img, todo, idx, api_name, img_path,
                   everMarked, atStart, pureVars>>

\* range(1, retries): one attempt fewer
LastAttemptShort(a) == a >= DefaultRetries - 1

\* call_wan2_2, line 161: range(1, retries + 1) is exhausted after this attempt
LastAttempt(a) == a >= DefaultRetries

\* an except clause limited to the failures of the remote call
CaughtOnlyCallErrors(e) == e \in CallErrors

\* call_wan2_2, line 190: except Exception catches the error of line 188 too
Caught(e) == e \in CallErrors \cup {ShapeError}

\* the first error kept instead of the last
KeepFirstErr(old, e) == IF old = "" THEN e ELSE old

\* call_wan2_2, line 191
NewLastErr(old, e) == e

\* the exception e is raised inside the try block of lines 162-188
RaisedInTry(e) ==
    /\ observed' = e
    /\ out_local' = out_local
    /\ idx' = idx
    /\ IF Caught(e)
       THEN /\ last_err' = NewLastErr(last_err, e)
            /\ pc' = "hf_sleep"
            /\ UNCHANGED <<err, tmp, fs>>
       ELSE /\ last_err' = last_err
            /\ Fail("UnsupportedResultShape", e)

\* call_wan2_2, lines 162-191: one attempt
HFAttempt ==
    /\ pc = "hf_call"
    /\ calls' = calls + 1
    /\ log' = log \cup {<<"generate", todo[idx].id>>}
    /\ hist' = [hist EXCEPT !.used = @ \cup {api_name}]
    /\ \/ \E e \in CallErrors : RaisedInTry(e)
       \/ \E r \in PredictResults :
            LET p == NormalizeResult(r, LocalOutputs)
            IN  IF p # NoPath
                THEN /\ out_local' = p
                     /\ observed' = "ok"
                     /\ last_err' = last_err
                     /\ err' = err
                     /\ Goto(StepAfter("hf_call"))
                ELSE RaisedInTry(ShapeError)
    /\ UNCHANGED <<driveVars, runs, latest_img, todo, api_name, img_path,
                   video_path, attempt, sleeps, visited, everMarked, atStart,
                   pureVars>>

\* the sleep left out when no attempt follows
SleptUnlessLast(slept, a) == IF LastAttempt(a) THEN slept ELSE Append(slept, Backoff(a))

\* call_wan2_2, lines 192-194: the handler sleeps whatever the attempt number
Slept(slept, a) == Append(slept, Backoff(a))

\* call_wan2_2, lines 192-196: the backoff sleep, then the next attempt or the
\* final raise
HFSleep ==
    /\ pc = "hf_sleep"
    /\ sleeps' = Slept(sleeps, attempt)
    /\ IF LastAttempt(attempt)
       THEN /\ OnItemFailure("GenerationFailure", last_err)
            /\ attempt' = attempt
       ELSE /\ attempt' = attempt + 1
            /\ pc' = "hf_call"
            /\ UNCHANGED <<err, tmp, fs, idx>>
    /\ UNCHANGED <<driveVars, runs, latest_img, todo, api_name, img_path,
                   video_path, last_err, calls, out_local, histVars, pureVars>>

\* main, lines 251-255
Upload ==
    /\ pc = "upload"
    /\ log' = log \cup {<<"upload", todo[idx].id>>}
    /\ \E ok \in BOOLEAN :
         /\ hist' = Requested("upload", todo[idx].id, ok)
         /\ IF ok
            THEN /\ outFolder' = Append(outFolder, [name |-> OutName(todo[idx].name),
                                                    src |-> todo[idx].id])
                 /\ err' = err
                 /\ Goto(StepAfter("upload"))
            ELSE /\ OnItemFailure("StoreError", "upload")
                 /\ outFolder' = outFolder
    /\ UNCHANGED <<picFolder, refFolder, runs, latest_img, todo, api_name, img_path,
                   video_path, callVars, visited, everMarked, atStart, pureVars>>

\* rename_file, lines 117-123: Drive sets the name of the file with this id
Renamed(folder, file_id, new_name) ==
    [i \in DOMAIN folder |->
        IF folder[i].id = file_id THEN [folder[i] EXCEPT !.name = new_name]
        ELSE folder[i]]

\* main, lines 257-260
Rename ==
    /\ pc = "rename"
    /\ log' = log \cup {<<"rename", todo[idx].id>>}
    /\ \E ok \in BOOLEAN :
         /\ hist' = Requested("rename", todo[idx].id, ok)
         /\ IF ok
            THEN /\ refFolder' = Renamed(refFolder, todo[idx].id, NewInName(todo[idx].name))
                 /\ err' = err
                 /\ Goto(StepAfter("rename"))
            ELSE /\ OnItemFailure("StoreError", "rename")
                 /\ refFolder' = refFolder
    /\ everMarked' = everMarked \cup
            {refFolder'[i].id : i \in {j \in DOMAIN refFolder' : is_processed(refFolder'[j].name)}}
    /\ UNCHANGED <<picFolder, outFolder, runs, latest_img, todo, api_name, img_path,
                   video_path, callVars, visited, atStart, pureVars>>

\* the process is killed at any point of a run: nothing is cleaned up
Crash ==
    /\ pc \notin {"idle"} \cup Terminal
    /\ pc' = "crashed"
    /\ err' = [kind |-> "Killed", cause |-> pc]
    /\ UNCHANGED <<driveVars, runs, latest_img, todo, idx, api_name, tmp, fs,
                   img_path, video_path, callVars, log, visited, everMarked,
                   atStart, hist, pureVars>>

Next ==
    \/ Configure
    \/ DiscoverRef
    \/ DiscoverQueue
    \/ Connect
    \/ Prepare
    \/ SkipItem
    \/ DownloadItem
    \/ HFAttempt
    \/ HFSleep
    \/ Upload
    \/ Rename
    \/ Crash

Spec == Init /\ [][Next]_vars

\* ------------------------------------------------------------------------
\* Runs of main() over folders whose file names differ only in characters
\* that safe_filename replaces
\* ------------------------------------------------------------------------
SharePics ==
    <<File("i5", <<"m", " ", "v">>, IMAGE, <<"0", "7">>, <<>>, 10)>>

ShareVideoPool ==
    {File("ve", <<"m", "_", "v">>, VIDEO, <<"1", "0">>, <<>>, 1048576),
     File("vf", <<"m", "?", "v">>, VIDEO, <<"2", "0">>, <<>>, 1048576),
     File("vg", <<"g", ".", "m", "p", "4">>, VIDEO, <<"3", "0">>, <<>>, 209715201)}

InitShare ==
    /\ picFolder = SharePics
    /\ refFolder \in Listings(ShareVideoPool, MaxVideos)
    /\ outFolder = <<>>
    /\ InitRun("idle")
    /\ everMarked = Marked
    /\ atStart = [marked |-> {}, outputs |-> 0]
    /\ InitPure

SpecShare == InitShare /\ [][Next]_vars

\* ------------------------------------------------------------------------
\* pick_latest_image alone, on every list of at most MaxPicFiles files
\* ------------------------------------------------------------------------
PickShapes ==
    {File("f", name, mime, ctime, mtime, 10) :
        name \in {<<"a", ".", "p", "n", "g">>, <<".", "b", ".", "p", "n", "g">>},
        mime \in {IMAGE, VIDEO},
        ctime \in {<<"0", "5">>, <<"2", "0">>},
        mtime \in {<<>>, <<"0", "3">>, <<"1", "2">>}}

\* the files of a listing have distinct ids
Numbered(files) ==
    [i \in DOMAIN files |-> [files[i] EXCEPT !.id = <<"f", i>>]]

RECURSIVE SeqsUpTo(_, _)
SeqsUpTo(S, n) ==
    IF n = 0 THEN {<<>>}
    ELSE {<<>>} \cup {<<x>> \o rest : x \in S, rest \in SeqsUpTo(S, n - 1)}

IdleDrive ==
    /\ picFolder = <<>> /\ refFolder = <<>> /\ outFolder = <<>>
    /\ everMarked = {} /\ atStart = [marked |-> {}, outputs |-> 0]

InitPick ==
    /\ IdleDrive
    /\ InitRun("pick_ready")
    /\ pickIn \in {Numbered(files) : files \in SeqsUpTo(PickShapes, MaxPicFiles)}
    /\ pickOut = NoFile
    /\ normIn = [result |-> OtherResult, exists |-> {}] /\ normOut = NoPath
    /\ listIn = <<>> /\ listOut = <<>>

PickImage ==
    /\ pc = "pick_ready"
    /\ pickOut' = pick_latest_image(pickIn)
    /\ pc' = "picked"
    /\ UNCHANGED <<driveVars, err, runs, latest_img, todo, idx, api_name, tmp, fs,
                   img_path, video_path, callVars, log, visited, everMarked, atStart,
                   hist, pickIn, normIn, normOut, listIn, listOut>>

NextPick == PickImage

SpecPick == InitPick /\ [][NextPick]_vars

\* ------------------------------------------------------------------------
\* Result normalization alone, on every result shape and set of local files
\* ------------------------------------------------------------------------
NormPaths == {"p1", "p2", "url"}
NormElems == [kind : {"str"}, s : NormPaths] \cup {[kind |-> "other", s |-> ""]}
NormResults ==
    {StrResult(p) : p \in NormPaths}
    \cup {SeqResult(items) : items \in SeqsUpTo(NormElems, MaxSeqLen)}
    \cup {MapResult(m) : m \in [AllKeys -> NormElems \cup {Absent}]}
    \cup {OtherResult}

InitNorm ==
    /\ IdleDrive
    /\ InitRun("norm_ready")
    /\ pickIn = <<>> /\ pickOut = NoFile
    /\ normIn \in [result : NormResults, exists : SUBSET {"p1", "p2"}]
    /\ normOut = NoPath
    /\ listIn = <<>> /\ listOut = <<>>

Normalize ==
    /\ pc = "norm_ready"
    /\ normOut' = NormalizeResult(normIn.result, normIn.exists)
    /\ pc' = "normalized"
    /\ UNCHANGED <<driveVars, err, runs, latest_img, todo, idx, api_name, tmp, fs,
                   img_path, video_path, callVars, log, visited, everMarked, atStart,
                   hist, pickIn, pickOut, normIn, listIn, listOut>>

NextNorm == Normalize

SpecNorm == InitNorm /\ [][NextNorm]_vars

\* ------------------------------------------------------------------------
\* list_files_in_folder alone
\* ------------------------------------------------------------------------
ListShapes ==
    {File("f", <<"a">>, IMAGE, <<"0", "5">>, <<>>, 10),
     File("f", <<"b">>, VIDEO, <<"0", "5">>, <<>>, 10)}

\* a page without files may come with a token for the next one
WithEmptyPage(pages) ==
    {pages} \cup {SubSeq(pages, 1, n) \o <<<<>>>> \o SubSeq(pages, n + 1, Len(pages)) :
                    n \in 0..Len(pages)}

\* what Drive answers for a folder and a filter: the matching files, cut into
\* pages
ListInputs ==
    UNION {{[folder |-> folder, mime_prefix |-> prefix, pages |-> pages] :
                pages \in UNION {WithEmptyPage(cut) :
                                    cut \in Paginations(MatchQuery(folder, prefix))}} :
            folder \in {Numbered(files) : files \in SeqsUpTo(ListShapes, MaxListFiles)},
            prefix \in {"", "image/", "video/"}}

InitList ==
    /\ IdleDrive
    /\ InitRun("list_ready")
    /\ pickIn = <<>> /\ pickOut = NoFile
    /\ normIn = [result |-> OtherResult, exists |-> {}] /\ normOut = NoPath
    /\ listIn \in ListInputs
    /\ listOut = <<>>

ListFiles ==
    /\ pc = "list_ready"
    /\ listOut' = list_files_in_folder(listIn.pages)
    /\ pc' = "listed"
    /\ UNCHANGED <<driveVars, err, runs, latest_img, todo, idx, api_name, tmp, fs,
                   img_path, video_path, callVars, log, visited, everMarked, atStart,
                   hist, pickIn, pickOut, normIn, normOut, listIn>>

NextList == ListFiles

SpecList == InitList /\ [][NextList]_vars

\* ------------------------------------------------------------------------
\* Properties
\* ------------------------------------------------------------------------

\* the name carries the processing marker somewhere
HasMarker(name) ==
    \E i \in 1..Len(name) :
        /\ i + 10 <= Len(name)
        /\ <<name[i], name[i + 1], name[i + 2], name[i + 3], name[i + 4], name[i + 5],
             name[i + 6], name[i + 7], name[i + 8], name[i + 9], name[i + 10]>>
           = <<"_", "_", "P", "R", "O", "C", "E", "S", "S", "E", "D">>

\* modification time, creation time when the modification time is absent
EffTime(f) == TimeVal(IF f.modifiedTime = <<>> THEN f.createdTime ELSE f.modifiedTime)

Ids(files) == {files[i].id : i \in DOMAIN files}
CurrentName(id) == (CHOOSE f \in Range(refFolder) : f.id = id).name
UploadedFor(id, from) == \E k \in DOMAIN outFolder : k > from /\ outFolder[k].src = id
Ops == {"download", "generate", "upload", "rename"}
Touched(id) == \E op \in Ops : <<op, id>> \in log
InLoop == pc \in {"item", "hf_call", "hf_sleep", "upload", "rename"}
PastQueue == pc \in {"connect", "prepare"} \/ InLoop

\* C1: a source gets the marker only after its output was uploaded in the same
\* run: every source marked by a run has an uploaded output derived from it,
\* every rename of a run follows a successful upload of that run for the same
\* item, and an item whose upload is done but whose rename is not (also when
\* the run is killed there) is still pending.
C1_MarkedOnlyAfterUpload ==
    /\ \A f \in Range(refFolder) :
         HasMarker(f.name) /\ ~HasMarker(OrigName(f.id)) => UploadedFor(f.id, 0)
    /\ \A f \in Range(refFolder) :
         <<"rename", f.id>> \in log => UploadedFor(f.id, atStart.outputs)
    /\ (pc = "rename" \/ (pc = "crashed" /\ err.cause = "rename"))
         => ~HasMarker(CurrentName(todo[idx].id))

\* C1 witness: a run was killed between upload and rename, and a later run
\* uploaded the output again and marked the source
C1_Witness ==
    \E f \in Range(refFolder) :
        /\ HasMarker(f.name) /\ ~HasMarker(OrigName(f.id))
        /\ Cardinality({k \in DOMAIN outFolder : outFolder[k].src = f.id}) = 2

\* names the rename is tried on
SampleNames == SeqsUpTo({"a", ".", "/", "_"}, 3) \cup {f.name : f \in VideoPool}

\* the new name of every sample name carries the marker
RenameAlwaysMarks == \A n \in SampleNames : HasMarker(NewInName(n))

\* C2: once an item's pipeline has completed through the rename its name
\* carries the marker (whatever the original name), the marker is never
\* removed, and a run leaves alone every item that carried the marker when it
\* began: not in the queue, no download, generation call, upload or rename.
C2_Idempotent ==
    /\ RenameAlwaysMarks
    /\ \A i \in DOMAIN todo :
         i < idx /\ <<"rename", todo[i].id>> \in log
            => HasMarker(CurrentName(todo[i].id))
    /\ \A id \in everMarked : HasMarker(CurrentName(id))
    /\ \A id \in atStart.marked : id \notin Ids(todo) /\ ~Touched(id)

\* C2 witness: a later run ends while an item renamed by an earlier run is
\* still marked and untouched
C2_Witness ==
    /\ runs = 2 /\ pc = "done"
    /\ \E id \in atStart.marked : ~HasMarker(OrigName(id))

\* C3: when call_wan2_2 returns a path after N failed attempts, it has made
\* N + 1 remote calls (at most 5) and N sleeps, the a-th of min(60, 5a); every
\* sleep is at most 60 and sleeps do not decrease.
C3_RetryThenSuccess ==
    out_local # NoPath =>
        /\ out_local \in LocalOutputs
        /\ calls <= 5
        /\ Len(sleeps) = calls - 1
        /\ \A a \in DOMAIN sleeps :
             /\ sleeps[a] = (IF 5 * a < 60 THEN 5 * a ELSE 60)
             /\ sleeps[a] <= 60
             /\ a > 1 => sleeps[a - 1] <= sleeps[a]

\* C3 witness: success on the last allowed attempt, after four failures
C3_Witness == out_local # NoPath /\ calls = 5 /\ Len(sleeps) = 4

\* C4: call_wan2_2 never makes more than 5 remote calls; when it fails, every
\* one of exactly 5 calls has failed, no path is returned and the failure
\* carries the error of the last attempt.
C4_ExhaustedRetries ==
    /\ calls <= 5
    /\ err.kind = "GenerationFailure" =>
         /\ pc = "failed"
         /\ calls = 5
         /\ observed # "ok" /\ err.cause = observed
         /\ out_local = NoPath

\* C4 witness: five failed calls, the last one a timeout after a transport error
C4_Witness ==
    /\ err.kind = "GenerationFailure" /\ err.cause = "timeout"
    /\ sleeps[4] = 20 /\ calls = 5

\* C5: a result that normalization rejects ends call_wan2_2 at once with
\* UnsupportedResultShape: no backoff sleep, no further remote call.
C5_ShapeErrorNotRetried ==
    observed = ShapeError =>
        \/ pc = "failed" /\ err.kind = "UnsupportedResultShape"
        \/ pc = "crashed"

MinOf(S) == CHOOSE x \in S : \A y \in S : x <= y

\* C6: normalization yields the string itself when it names an existing local
\* file, the first element of a sequence that does, the first value of a
\* mapping under video, path, output, file (in that order) that does, and no
\* path (UnsupportedResultShape) for every other result.
C6_Normalization ==
    pc = "normalized" =>
        LET r == normIn.result
            local(e) == e.kind = "str" /\ e.s \in normIn.exists
            keys == <<"video", "path", "output", "file">>
            L == {i \in DOMAIN r.items : local(r.items[i])}
            K == {i \in 1..4 : local(r.m[keys[i]])}
        IN  CASE r.shape = "str" ->
                    normOut = (IF r.s \in normIn.exists THEN r.s ELSE NoPath)
              [] r.shape = "seq" ->
                    normOut = (IF L = {} THEN NoPath ELSE r.items[MinOf(L)].s)
              [] r.shape = "map" ->
                    normOut = (IF K = {} THEN NoPath ELSE r.m[keys[MinOf(K)]].s)
              [] OTHER -> normOut = NoPath

\* C6 witness: a mapping whose video value is no local file and whose path and
\* output values both are: the path value is returned
C6_Witness ==
    /\ pc = "normalized" /\ normIn.result.shape = "map"
    /\ normIn.exists = {"p1", "p2"}
    /\ normIn.result.m["video"] = [kind |-> "str", s |-> "url"]
    /\ normIn.result.m["path"] = [kind |-> "str", s |-> "p2"]
    /\ normIn.result.m["output"] = [kind |-> "str", s |-> "p1"]
    /\ normOut = "p2"

\* C7: the queue of a run is exactly the listed videos whose name does not
\* contain the marker, in ascending order of modification time (creation time
\* when it is absent), and the loop takes the items in that order.
C7_QueueOrder ==
    (PastQueue \/ pc = "done") =>
        /\ \A i \in DOMAIN todo : ~HasMarker(todo[i].name) /\ todo[i].id \in Ids(refFolder)
        /\ \A f \in Range(refFolder) : ~HasMarker(f.name) => f.id \in Ids(todo)
        /\ Cardinality(Ids(todo)) = Len(todo)
        /\ \A i, j \in DOMAIN todo : i < j => EffTime(todo[i]) <= EffTime(todo[j])
        /\ Len(visited) <= Len(todo)
        /\ \A i \in DOMAIN visited : visited[i] = todo[i].id

\* C7 witness: two items taken oldest first, against the listing order, the
\* older one ordered by its creation time
C7_Witness ==
    /\ pc = "done" /\ Len(todo) = 2 /\ Len(visited) = 2
    /\ refFolder[1].id = todo[2].id
    /\ todo[1].modifiedTime = <<>>
    /\ EffTime(todo[1]) < EffTime(todo[2])

\* C8: pick_latest_image returns no file exactly when no listed file is an
\* image with a name not starting with ".", and otherwise one of these
\* candidates whose modification time (creation time when absent) is maximal.
C8_LatestImage ==
    pc = "picked" =>
        LET cand == {i \in DOMAIN pickIn :
                        /\ pickIn[i].mimeType[1] = "image/"
                        /\ pickIn[i].name[1] # "."}
        IN  /\ pickOut = NoFile <=> cand = {}
            /\ cand # {} =>
                 \E i \in cand :
                    /\ pickOut = pickIn[i]
                    /\ \A j \in cand : EffTime(pickIn[j]) <= EffTime(pickIn[i])

\* C8 witness: of two candidates the second listed is the newer and is chosen
\* by its creation time
C8_Witness ==
    /\ pc = "picked" /\ Len(pickIn) = 2
    /\ \A i \in {1, 2} : pickIn[i].mimeType[1] = "image/" /\ pickIn[i].name[1] # "."
    /\ pickIn[2].modifiedTime = <<>>
    /\ EffTime(pickIn[1]) < EffTime(pickIn[2])
    /\ pickOut = pickIn[2]

Oversize(f) == f.size > 200 * 1024 * 1024

\* C9: an item of the queue whose declared size exceeds 200 MB gets no
\* download, generation call, upload or rename in the run, and skipping it does
\* not end the loop: the loop goes on with the next position and the run is
\* done only when every item of the queue has been taken.
C9_SizeGate ==
    /\ \A i \in DOMAIN todo :
         Oversize(todo[i]) =>
            /\ ~Touched(todo[i].id)
            /\ ~UploadedFor(todo[i].id, atStart.outputs)
            /\ ~HasMarker(CurrentName(todo[i].id))
    /\ pc = "item" => idx = Len(visited) + 1 /\ idx <= Len(todo)
    /\ pc = "done" /\ todo # <<>> => Len(visited) = Len(todo)

\* C9 witness: the first item is oversize and skipped, the second, smaller one
\* completed its pipeline in the same run
C9_Witness ==
    /\ pc = "done" /\ Len(todo) = 2
    /\ Oversize(todo[1]) /\ ~Oversize(todo[2])
    /\ visited = <<todo[1].id, todo[2].id>>
    /\ {<<op, todo[2].id>> : op \in Ops} \subseteq log
    /\ UploadedFor(todo[2].id, atStart.outputs)
    /\ HasMarker(CurrentName(todo[2].id))

NoUnprocessedAtStart == runs >= 1 /\ Ids(refFolder) \subseteq atStart.marked

\* C10 as stated: with no unprocessed video in the video folder (the
\* configuration complete and the Drive requests succeeding) the run does not
\* end with an error and makes no upload, rename or generation call.
C10_EmptyQueueSucceeds ==
    NoUnprocessedAtStart =>
        /\ pc = "failed" => err.kind \in {"ConfigurationError", "StoreError"}
        /\ log = {} /\ calls = 0 /\ Len(outFolder) = atStart.outputs

\* C10 amended: with no unprocessed video in the video folder the run makes
\* no upload, rename, download or generation call and never passes the queue
\* discovery; once a reference image was found, it ends successfully unless
\* the listing of the video folder fails.
C10_EmptyQueueNoOp ==
    NoUnprocessedAtStart =>
        /\ ~PastQueue
        /\ log = {} /\ calls = 0 /\ Len(outFolder) = atStart.outputs
        /\ tmp = "none"
        /\ pc = "done" => err = NoErr /\ latest_img # NoFile
        /\ pc = "failed" /\ latest_img # NoFile
             => err = [kind |-> "StoreError", cause |-> "list"]

\* C10 witness: a second run finds every video marked by the first and is done
C10_Witness ==
    /\ runs = 2 /\ pc = "done" /\ refFolder # <<>>
    /\ NoUnprocessedAtStart
    /\ \E id \in atStart.marked : ~HasMarker(OrigName(id))

\* a file pickReferenceImage may return: an image whose name has no leading dot
VisibleImage(f) ==
    /\ f.mimeType # <<>> /\ f.mimeType[1] = "image/"
    /\ (f.name = <<>> \/ f.name[1] # ".")

NoVisibleImage == \A i \in DOMAIN picFolder : ~VisibleImage(picFolder[i])

\* C11: with no non-hidden image in the image folder a run never gets past
\* the image discovery, whatever the video folder holds: it makes no
\* download, generation call, upload or rename and creates no workspace, and
\* once the listing has answered it has failed with the DiscoveryError.
C11_NoImageAborts ==
    /\ err.kind = "DiscoveryError" =>
         /\ pc = "failed" /\ NoVisibleImage
         /\ log = {} /\ calls = 0 /\ hist.mkdirs = 0 /\ tmp = "none"
         /\ Len(outFolder) = atStart.outputs /\ Marked = atStart.marked
    /\ (runs >= 1 /\ NoVisibleImage) =>
         /\ pc \in {"discover_ref", "failed", "crashed"}
         /\ log = {} /\ calls = 0 /\ latest_img = NoFile
         /\ pc = "failed" =>
              \/ err.kind = "DiscoveryError"
              \/ err = [kind |-> "StoreError", cause |-> "list"]
              \/ err.kind = "ConfigurationError"

\* C11 witness: the only image is hidden and the video folder holds a pending
\* video; the run has failed with the DiscoveryError
C11_Witness ==
    /\ err.kind = "DiscoveryError" /\ pc = "failed"
    /\ picFolder # <<>>
    /\ \E i \in DOMAIN refFolder : ~HasMarker(refFolder[i].name)

\* the generation call of an item has used up its attempts, or the upload of
\* the item at position k was requested and has left no output
GenerationExhausted == Len(sleeps) = 5
UploadFailedAt(k) ==
    /\ <<"upload", todo[k].id>> \in log
    /\ ~UploadedFor(todo[k].id, atStart.outputs)

\* the items before position k are complete: skipped by the size gate, or
\* renamed with their output in the output folder
CompleteBefore(k) ==
    \A j \in 1..(k - 1) :
        \/ Oversize(todo[j]) /\ ~Touched(todo[j].id)
        \/ /\ HasMarker(CurrentName(todo[j].id))
           /\ UploadedFor(todo[j].id, atStart.outputs)

\* C12: when the generation call (its attempts used up) or the upload fails
\* for the item at position k, the run has failed there: no item after k is
\* downloaded, generated, uploaded or renamed, the item at k is not renamed,
\* and every item before k is still renamed with its output in place.
C12_FailureAbortsQueue ==
    (GenerationExhausted \/ \E k \in DOMAIN todo : UploadFailedAt(k)) =>
        /\ pc = "failed" /\ idx \in DOMAIN todo
        /\ err.kind \in {"GenerationFailure", "StoreError"}
        /\ GenerationExhausted => <<"generate", todo[idx].id>> \in log
        /\ \A k \in DOMAIN todo : UploadFailedAt(k) => k = idx
        /\ \A j \in (idx + 1)..Len(todo) : ~Touched(todo[j].id)
        /\ <<"rename", todo[idx].id>> \notin log
        /\ ~HasMarker(CurrentName(todo[idx].id))
        /\ CompleteBefore(idx)

\* C12 witness: the generation call fails for the first of two queued items
C12_Witness ==
    /\ pc = "failed" /\ err.kind = "GenerationFailure"
    /\ idx = 1 /\ Len(todo) = 2 /\ ~Oversize(todo[2])

\* the extension of a name: what follows its base name, the dot included
ExtOf(name) == SubSeq(name, Len(SplitBase(name)) + 1, Len(name))

\* C13: every uploaded output is named with the base name of its source,
\* then __MIX__PRO, then the extension the source had.
C13_OutputKeepsExtension ==
    \A k \in DOMAIN outFolder :
        LET src == OrigName(outFolder[k].src)
        IN  outFolder[k].name = SplitBase(src) \o MIX_PRO \o ExtOf(src)

\* the endpoint the heuristic names for a descriptor whose query answered
\* with endpoints, or whose query failed
Heuristic(desc) ==
    LET four == {i \in DOMAIN desc.endpoints : desc.endpoints[i].nparams = 4}
    IN  IF ~desc.ok THEN "/predict"
        ELSE IF four # {} THEN desc.endpoints[MinOf(four)].name
        ELSE desc.endpoints[1].name

\* C14: the endpoint is resolved at most once in a run; the name resolved
\* is the first endpoint of the descriptor with 4 parameters, the first
\* endpoint when none has 4, the default name when the query failed; every
\* generation call of the run, for every item, is made with that name.
C14_EndpointResolvedOnce ==
    /\ hist.resolves <= 1
    /\ hist.resolves = 0 => hist.used = {} /\ ~InLoop
    /\ hist.resolves = 1 =>
         /\ hist.used \subseteq {api_name}
         /\ (~hist.desc.ok \/ hist.desc.endpoints # <<>>) => api_name = Heuristic(hist.desc)
    /\ \A id \in Ids(todo) : <<"generate", id>> \in log => hist.used = {api_name}

\* C14 witness: the second endpoint of the descriptor is the first with 4
\* parameters, and the second item of the queue has been generated with it
C14_Witness ==
    /\ hist.desc.ok /\ Len(hist.desc.endpoints) = 2
    /\ hist.desc.endpoints[1].nparams # 4 /\ api_name = hist.desc.endpoints[2].name
    /\ Len(todo) = 2 /\ idx = 2 /\ pc = "upload"
    /\ <<"generate", todo[1].id>> \in log /\ hist.used = {api_name}

\* C15: a run creates at most one temporary directory, and when the run
\* has ended, with every item done or skipped or with an error raised by a
\* download, the generation call, an upload or a rename, the directory it
\* created exists no more.
C15_WorkspaceRemoved ==
    /\ hist.mkdirs <= 1
    /\ tmp = "none" <=> hist.mkdirs = 0
    /\ pc \in {"done", "failed"} => tmp # "exists" /\ fs = EmptyFs
    /\ tmp = "exists" => InLoop \/ pc = "crashed"

\* C15 witness: the rename of the second item fails, after the first item
\* went through; the directory the run created is removed
C15_Witness ==
    /\ pc = "failed" /\ err = [kind |-> "StoreError", cause |-> "rename"]
    /\ idx = 2 /\ hist.mkdirs = 1 /\ tmp = "removed"

\* the three required identifiers: image folder, video folder, output folder
FolderIds == {"PIC_FOLDER_ID", "REF_FOLDER_ID", "OUT_FOLDER_ID"}

\* C16: a run started with one of the three folder identifiers absent has
\* failed with a ConfigurationError naming an absent setting, and has sent
\* no listing, download, upload or rename request and made no generation
\* call.
C16_MissingIdFailsFast ==
    (runs >= 1 /\ ~(FolderIds \subseteq hist.env)) =>
        /\ pc = "failed"
        /\ err.kind = "ConfigurationError" /\ err.cause \notin hist.env
        /\ hist.tries = <<>> /\ log = {} /\ calls = 0
        /\ hist.resolves = 0 /\ hist.mkdirs = 0 /\ tmp = "none"
        /\ latest_img = NoFile /\ todo = <<>>
        /\ Len(outFolder) = atStart.outputs /\ Marked = atStart.marked

\* C16 witness: only the output folder id is absent, while the folders hold
\* an image and a pending video
C16_Witness ==
    /\ pc = "failed" /\ err = [kind |-> "ConfigurationError", cause |-> "OUT_FOLDER_ID"]
    /\ hist.env = Range(RequiredEnv) \ {"OUT_FOLDER_ID"}
    /\ ~NoVisibleImage
    /\ \E i \in DOMAIN refFolder : ~HasMarker(refFolder[i].name)

\* the store request whose failure ended the run was the last step taken
LastStepWas(op) ==
    CASE op = "list" -> log = {} /\ hist.resolves = 0
      [] op = "download" ->
            \/ idx = 0 /\ log = {<<"download", latest_img.id>>}
            \/ /\ idx \in DOMAIN todo
               /\ <<"download", todo[idx].id>> \in log
               /\ <<"generate", todo[idx].id>> \notin log
      [] op = "upload" ->
            /\ <<"upload", todo[idx].id>> \in log
            /\ <<"rename", todo[idx].id>> \notin log
            /\ ~UploadedFor(todo[idx].id, atStart.outputs)
      [] op = "rename" ->
            /\ <<"rename", todo[idx].id>> \in log
            /\ ~HasMarker(CurrentName(todo[idx].id))
            /\ \A j \in (idx + 1)..Len(todo) : ~Touched(todo[j].id)

\* C19: every listing, download, upload and rename request of a run is sent
\* once; when one of them fails the run has failed with that error, nothing
\* having been done after it; the generation call alone is made more than
\* once for an item.
C19_StoreOpsNotRetried ==
    /\ \A k \in DOMAIN hist.tries : hist.tries[k] = 1
    /\ \A op \in Ops \ {"generate"}, id \in Ids(todo) \cup {latest_img.id} :
          <<op, id>> \in log => <<op, id>> \in DOMAIN hist.tries
    /\ err.kind = "StoreError" =>
          /\ pc = "failed"
          /\ err.cause \in DOMAIN [list |-> 0, download |-> 0, upload |-> 0, rename |-> 0]
          /\ LastStepWas(err.cause)

\* C19 witness: the download of the second item fails at its only request,
\* after the generation call of the first item was made three times
C19_Witness ==
    /\ pc = "failed" /\ err = [kind |-> "StoreError", cause |-> "download"]
    /\ idx = 2 /\ calls = 3
    /\ hist.tries[<<"download", todo[2].id>>] = 1

\* C20: in call_wan2_2 every failed attempt is followed by its sleep, the
\* last one too: a new attempt starts, and the final failure is raised, only
\* when as many sleeps as failed attempts are over; the failure is raised
\* after exactly 5 sleeps, of 5, 10, 15, 20 and 25 seconds.
C20_SleepAfterEveryFailure ==
    /\ pc = "hf_sleep" =>
          /\ calls = attempt /\ Len(sleeps) = attempt - 1
          /\ err.kind # "GenerationFailure"
    /\ pc = "hf_call" => calls = attempt - 1 /\ Len(sleeps) = calls
    /\ err.kind = "GenerationFailure" =>
          /\ calls = 5
          /\ sleeps = <<5, 10, 15, 20, 25>>

\* C20 witness: the fifth attempt has failed and its sleep of 25 seconds is
\* over when the failure is raised
C20_Witness ==
    /\ pc = "failed" /\ err.kind = "GenerationFailure"
    /\ attempt = 5 /\ Len(sleeps) = 5 /\ sleeps[5] = 25

\* the files of the pages, page after page
RECURSIVE Flatten(_)
Flatten(pages) ==
    IF pages = <<>> THEN <<>> ELSE Head(pages) \o Flatten(Tail(pages))

\* C17: whatever way the matching files of a folder are cut into pages,
\* pages without files included, list_files_in_folder returns the files of
\* all pages, each once and in page order: the answer of the same query
\* without pagination.
C17_PaginationTransparent ==
    pc = "listed" =>
        /\ listOut = Flatten(listIn.pages)
        /\ listOut = MatchQuery(listIn.folder, listIn.mime_prefix)
        /\ \A i, j \in DOMAIN listOut : listOut[i].id = listOut[j].id => i = j

\* C17 witness: three pages, the second without files, and a filter that
\* left a file of the folder out
C17_Witness ==
    /\ pc = "listed" /\ Len(listIn.pages) = 3
    /\ listIn.pages[1] # <<>> /\ listIn.pages[2] = <<>> /\ listIn.pages[3] # <<>>
    /\ Len(listOut) = 2 /\ Len(listIn.folder) = 3

\* the local path the input of a queued item is downloaded to
InputPath(f) == safe_filename(f.name)

\* C18: the reference image is downloaded once in a run, and no download of
\* an item writes to the path of the image or of the input of another item:
\* at every generation call the image path holds the reference image, the
\* video path holds the video of the item, and the inputs of the items
\* downloaded before are still in place.
C18_InputsNotOverwritten ==
    /\ <<"download", latest_img.id>> \in DOMAIN hist.tries =>
          hist.tries[<<"download", latest_img.id>>] = 1
    /\ pc = "hf_call" =>
          /\ fs[img_path] = latest_img.id
          /\ fs[video_path] = todo[idx].id
          /\ \A j \in 1..(idx - 1) :
                <<"generate", todo[j].id>> \in log => fs[InputPath(todo[j])] = todo[j].id

====
